---- MODULE Spec2Model ----
(***************************************************************************)
(* RavenClasses.py: the line-oriented reader of Raven input files          *)
(* (RavenFileReader), and the two format readers built on it (RavenRVT     *)
(* for time-series files, RavenRVH for basin/HRU definition files).        *)
(*                                                                         *)
(* A file is a sequence of lines.  A line is [tok, comma]: its tokens      *)
(* after stripping and splitting on whitespace (and commas), and whether   *)
(* its text holds a comma.  A tag line is one whose first token starts     *)
(* with ':'.  Positions of file handles are counted in lines.              *)
(***************************************************************************)
EXTENDS Integers, Sequences, FiniteSets, TLC

VARIABLES
    f,          \* the RavenFileReader object, with the file system it reads
    heap,       \* the gauge_dict objects created so far (Python dicts)
    rvt,        \* the RavenRVT object: metgauges, obsgauges
    rvh,        \* the RavenRVH object
    pc,         \* position of the caller: which loop of which read is running
    loc,        \* locals of the running read: line, name, gauge_dict
    exc,        \* the exception that ended the call, <<>> when none
    hist        \* what the run did so far (tags returned, last table decoded)

vars == <<f, heap, rvt, rvh, pc, loc, exc, hist>>

(***************************************************************************)
(* Bounds of the model.                                                    *)
(***************************************************************************)
MaxOpen == 4        \* file descriptors the process may hold open at once
MaxDrift == 1       \* lines the row parser may read ahead of the rows it returns

(***************************************************************************)
(* Small helpers.                                                          *)
(***************************************************************************)
\* LET v == e IN F(v), with e evaluated once.
Let(v, F(_)) == F(v)

Min(a, b) == IF a < b THEN a ELSE b
Max(a, b) == IF a > b THEN a ELSE b
Last(s) == s[Len(s)]
Front(s) == SubSeq(s, 1, Len(s) - 1)
Range(s) == {s[i] : i \in 1..Len(s)}

RECURSIVE Flatten(_)
Flatten(ss) == IF ss = <<>> THEN <<>> ELSE Head(ss) \o Flatten(Tail(ss))

RECURSIVE SumSeq(_)
SumSeq(s) == IF s = <<>> THEN 0 ELSE Head(s) + SumSeq(Tail(s))

\* All sequences over S of length at most n.
RECURSIVE SeqsUpTo(_, _)
SeqsUpTo(S, n) ==
    IF n = 0 THEN {<<>>}
    ELSE SeqsUpTo(S, n - 1) \cup {Append(s, x) : s \in SeqsUpTo(S, n - 1), x \in S}

(***************************************************************************)
(* Lines and tokens.                                                       *)
(***************************************************************************)
Txt(tok) == [tok |-> tok, comma |-> FALSE]
Csv(tok) == [tok |-> tok, comma |-> TRUE]
EmptyStr == Txt(<<>>)                   \* '' : also what readline() gives at EOF
False == Txt(<<"False">>)               \* the value False that nexttag returns at EOF

\* Tokens that start with the marker ':'.
ColonToks == {":Gauge", ":EndGauge", ":Latitude", ":Longitude", ":Elevation",
              ":MultiData", ":EndMultiData", ":Data", ":EndData",
              ":ObservationData", ":EndObservationData", ":RedirectToFile",
              ":Parameters", ":Units", ":Attributes", ":SubBasins",
              ":EndSubBasins", ":HRUs", ":EndHRUs", ":Other"}

\* str.replace(':', '') on a token.
StripColon(t) ==
    CASE t = ":Gauge" -> "Gauge"
      [] t = ":EndGauge" -> "EndGauge"
      [] t = ":Latitude" -> "Latitude"
      [] t = ":Longitude" -> "Longitude"
      [] t = ":Elevation" -> "Elevation"
      [] t = ":MultiData" -> "MultiData"
      [] t = ":EndMultiData" -> "EndMultiData"
      [] t = ":Data" -> "Data"
      [] t = ":EndData" -> "EndData"
      [] t = ":ObservationData" -> "ObservationData"
      [] t = ":EndObservationData" -> "EndObservationData"
      [] t = ":RedirectToFile" -> "RedirectToFile"
      [] t = ":Parameters" -> "Parameters"
      [] t = ":Units" -> "Units"
      [] t = ":Attributes" -> "Attributes"
      [] t = ":SubBasins" -> "SubBasins"
      [] t = ":EndSubBasins" -> "EndSubBasins"
      [] t = ":HRUs" -> "HRUs"
      [] t = ":EndHRUs" -> "EndHRUs"
      [] t = ":Other" -> "Other"
      [] t = "00:00:00" -> "000000"
      [] t = "12:00:00" -> "120000"
      [] OTHER -> t

\* line.startswith(':') of a stripped line.
startswith_colon(line) == Len(line.tok) > 0 /\ line.tok[1] \in ColonToks

\* line.startswith(':RedirectToFile')
startswith_redirect(line) == Len(line.tok) > 0 /\ line.tok[1] = ":RedirectToFile"

\* Truth value of what nexttag returned: False at EOF, a non-empty string otherwise.
Truthy(line) == line # False /\ line # EmptyStr

\* int(tok): the tokens that parse as integers, and their values.
IntToks == {"0", "1", "2", "3", "4", "5", "6", "10", "20", "30"}
int(t) ==
    CASE t = "0" -> 0 [] t = "1" -> 1 [] t = "2" -> 2 [] t = "3" -> 3
      [] t = "4" -> 4 [] t = "5" -> 5 [] t = "6" -> 6
      [] t = "10" -> 10 [] t = "20" -> 20 [] t = "30" -> 30

\* float(tok): every integer token, and the decimal tokens; values in tenths.
FloatToks == IntToks \cup {"1.0", "0.5", "45.0", "-75.0", "2.0"}
float(t) ==
    CASE t \in IntToks -> 10 * int(t)
      [] t = "1.0" -> 10 [] t = "0.5" -> 5 [] t = "2.0" -> 20
      [] t = "45.0" -> 450 [] t = "-75.0" -> -750

(***************************************************************************)
(* File handles.  A handle is [name, pos, closed]; pos counts the lines    *)
(* already read.  The reader r holds the file system r.fs, every handle    *)
(* ever opened r.handles, the active handle r.fileobject (0 for None) and  *)
(* the stack r.backburner of suspended handles.                            *)
(***************************************************************************)
NoExc == <<>>
None == <<>>
Ret(r, v) == [f |-> r, ret |-> v, exc |-> NoExc]
Raise(r, e) == [f |-> r, ret |-> None, exc |-> e]

Data(r) == r.fs[r.handles[r.fileobject].name]
tell(r) == r.handles[r.fileobject].pos
seek(r, p) == [r EXCEPT !.handles[r.fileobject].pos = p]
AtEOF(r) == tell(r) >= Len(Data(r))
OpenCount(r) == Cardinality({h \in 1..Len(r.handles) : ~r.handles[h].closed})

\* fileobject.readline(): the next line, '' at end of file.
readline(r) ==
    Let(tell(r), LAMBDA p :
        IF p >= Len(Data(r)) THEN Ret(r, EmptyStr)
        ELSE Ret(seek(r, p + 1), Data(r)[p + 1]))

\* fileobject.read(25): a chunk of up to 25 characters, '' at end of file.  The
\* chunk starts at the current line, so the position moves into or past it.
read25(r) ==
    Let(tell(r), LAMBDA p :
        IF p >= Len(Data(r)) THEN Ret(r, <<>>)
        ELSE Ret(seek(r, p + 1), <<Data(r)[p + 1]>>))

\* open(name, 'r'): a new handle at position 0, made the active one.
open(r, name) ==
    IF OpenCount(r) >= MaxOpen
    THEN Raise(r, <<"OSError", "Too many open files">>)
    ELSE Ret([r EXCEPT !.handles = Append(@, [name |-> name, pos |-> 0, closed |-> FALSE]),
                       !.fileobject = Len(r.handles) + 1], None)

\* fileobject.close()
close(r) == [r EXCEPT !.handles[r.fileobject].closed = TRUE]

\* RavenFileReader(filename) on file system fs.  All files live in one directory.
\* refcount tells the runtime the program runs on: one that closes a file
\* object the moment its last reference is dropped, or one that leaves it open
\* until some later collection.
Dir == "dir"
RavenFileReader(fs, filename, refcount) ==
    [fs |-> fs, filename |-> filename, path |-> Dir, refcount |-> refcount,
     handles |-> <<>>, fileobject |-> 0, backburner |-> <<>>,
     tags |-> <<>>]          \* history: every line nexttag has returned

\* __enter__
enter(r) == open(r, r.filename).f

\* __exit__
exit(r) == close(r)

\* path.join(self.path, name), and path.exists of it.
path_join(dir, name) == <<dir, name>>
path_exists(r, p) == p[1] = Dir /\ (p[2] = "" \/ p[2] \in DOMAIN r.fs)
\* The path as it prints: every file is in Dir, so its name tells it.
path_str(p) == p[2]

\* An end-of-file test that forgets the suspended files.
eof_check_flat(r) == Ret(r, AtEOF(r))

\* An end-of-file test that leaves the position behind the chunk it read.
eof_check_noseek(r) ==
    Let(read25(r), LAMBDA rd :
        IF rd.ret = <<>> /\ Len(r.backburner) > 0
        THEN Ret([rd.f EXCEPT !.fileobject = Last(r.backburner),
                              !.backburner = Front(r.backburner)], FALSE)
        ELSE Ret(rd.f, rd.ret = <<>>))

eof_check(r) ==
    Let(tell(r), LAMBDA curr_pos :
    Let(read25(r), LAMBDA rd :
        IF rd.ret = <<>>
        THEN IF Len(r.backburner) > 0
             THEN \* the assignment drops the last reference to the exhausted handle
                  Ret([(IF r.refcount THEN close(rd.f) ELSE rd.f)
                       EXCEPT !.fileobject = Last(r.backburner),
                              !.backburner = Front(r.backburner)], FALSE)
             ELSE Ret(rd.f, TRUE)
        ELSE Ret(seek(rd.f, curr_pos), FALSE)))

\* nextline(): readline().strip()
nextline(r) == readline(r)

\* '...{}...'.format(args): the pieces of the template, each placeholder "{}"
\* replaced by the next argument; arguments without a placeholder are dropped.
RECURSIVE format(_, _)
format(template, args) ==
    IF template = <<>> THEN <<>>
    ELSE IF Head(template) = "{}"
         THEN (IF args = <<>> THEN <<"IndexError">> ELSE <<Head(args)>>)
              \o format(Tail(template), IF args = <<>> THEN args ELSE Tail(args))
         ELSE <<Head(template)>> \o format(Tail(template), args)

RedirectMessage == <<"RedirectToFile path invalid: ", "{}", " \nIn File:">>

\* The redirect branch of nexttag (lines 99-104): r has read the directive line.
RECURSIVE nexttag(_)
redirect(r, line) ==
    Let(IF Len(line.tok) >= 2 THEN line.tok[2] ELSE "", LAMBDA arg :
    Let(path_join(r.path, arg), LAMBDA nextfile :
        IF path_exists(r, nextfile)
        THEN IF arg = ""
             THEN Raise(r, <<"IsADirectoryError">>)
             ELSE Let(open([r EXCEPT !.backburner = Append(@, r.fileobject)], arg),
                      LAMBDA o : IF o.exc # NoExc THEN o ELSE nexttag(o.f))
        ELSE Raise(r, <<"RuntimeError">> \o
                      format(RedirectMessage, <<path_str(nextfile), r.filename>>))))

\* The while loop of nexttag, from its test.
nexttag(r) ==
    Let(eof_check(r), LAMBDA e :
        IF e.ret THEN Ret(e.f, False)
        ELSE Let(nextline(e.f), LAMBDA n :
                 IF startswith_redirect(n.ret) THEN redirect(n.f, n.ret)
                 ELSE IF startswith_colon(n.ret)
                      THEN Ret([n.f EXCEPT !.tags = Append(@, n.ret)], n.ret)
                 ELSE nexttag(n.f)))

(***************************************************************************)
(* Date-step lines.  Instants and durations are counted in hours.          *)
(***************************************************************************)
DateToks == {"2000-01-01", "2000-01-02"}
TimeToks == {"00:00:00", "12:00:00"}
\* dt.datetime.strptime('{} {}'.format(d, t), '%Y-%m-%d  %H:%M:%S')
strptime(d, t) ==
    (CASE d = "2000-01-01" -> 0 [] d = "2000-01-02" -> 24)
    + (CASE t = "00:00:00" -> 0 [] t = "12:00:00" -> 12)
\* dt.timedelta(days=x), x in tenths of a day: hours, kept to the tenth of a day.
timedelta(x) == (x * 24) \div 10

\* The parse of a split date-step line (lines 116-118).
parse_dateline(r, line) ==
    IF Len(line) < 2 THEN Raise(r, <<"IndexError", "list index out of range">>)
    ELSE IF ~(line[1] \in DateToks /\ line[2] \in TimeToks)
    THEN Raise(r, <<"ValueError", "time data does not match format">>)
    ELSE IF Len(line) < 3 THEN Raise(r, <<"IndexError", "list index out of range">>)
    ELSE IF line[3] \notin FloatToks
    THEN Raise(r, <<"ValueError", "could not convert string to float">>)
    ELSE IF Len(line) < 4 THEN Raise(r, <<"IndexError", "list index out of range">>)
    ELSE IF line[4] \notin IntToks
    THEN Raise(r, <<"ValueError", "invalid literal for int()">>)
    ELSE Ret(r, [time_tuple |-> <<strptime(line[1], line[2]), timedelta(float(line[3]))>>,
                 nvalues |-> int(line[4])])

read_dateline(r) == Let(nextline(r), LAMBDA n : parse_dateline(n.f, n.ret.tok))

RECURSIVE skiplines(_, _)
skiplines(r, lines) ==
    IF lines <= 0 THEN r ELSE skiplines(readline(r).f, lines - 1)

comma_detector(r) ==
    Let(tell(r), LAMBDA curr_pos :
    Let(nextline(r), LAMBDA n :
        Ret(seek(n.f, curr_pos), n.ret.comma)))

\* A line as the file iterator yields it: with its line terminator, so the
\* iterator never yields the empty string, also not for a blank line.
raw_is_empty_string(line) == FALSE

\* The for loop of get_datadist, from position p: the lines counted.
RECURSIVE datadist_loop(_, _)
datadist_loop(data, p) ==
    IF p >= Len(data) THEN 0
    ELSE IF startswith_colon(data[p + 1]) \/ raw_is_empty_string(data[p + 1]) THEN 0
    ELSE 1 + datadist_loop(data, p + 1)

get_datadist(r) ==
    Let(tell(r), LAMBDA last_pos :
    Let(datadist_loop(Data(r), last_pos), LAMBDA counter :
        \* the iterator has read to the line that broke the loop, or to the end
        Let(seek(r, Min(Len(Data(r)), last_pos + counter + 1)), LAMBDA iterated :
            Ret(seek(iterated, last_pos), counter))))

(***************************************************************************)
(* pandas.read_table(fileobject, sep=',' or delim_whitespace=True,         *)
(* header=None, names=parameters, nrows=nvalues, na_values=na_values).     *)
(* A DataFrame is [columns, nidx, rows, indexed, index]: the column        *)
(* labels, the number of leading cells of a row that pandas took as an     *)
(* implicit index (a row with more cells than names), the rows (cells      *)
(* padded with NaN to one width), and the Datetime index once set.         *)
(***************************************************************************)
NaN == "NaN"
Garbled == "<not a number>"
na_values_default == "-1.2345"

\* The fields of one line under a delimiter.  A comma-separated line is
\* written "a, b"; split on whitespace its cells keep their commas, and a
\* whitespace-separated line split on commas is one cell.
Fields(line, sepComma) ==
    IF line.comma = sepComma \/ Len(line.tok) <= 1 THEN line.tok
    ELSE IF sepComma THEN <<Garbled>>
    ELSE [i \in 1..Len(line.tok) |-> IF i < Len(line.tok) THEN Garbled ELSE line.tok[i]]

\* The label pandas gives column i (0-based) when no names are passed.
IntLabel(i) ==
    CASE i = 0 -> "#0" [] i = 1 -> "#1" [] i = 2 -> "#2" [] i = 3 -> "#3"
      [] OTHER -> "#n"

\* Positions (1-based) of the non-blank lines of data after position p.
RECURSIVE NonBlankFrom(_, _)
NonBlankFrom(data, p) ==
    IF p >= Len(data) THEN <<>>
    ELSE (IF data[p + 1].tok = <<>> THEN <<>> ELSE <<p + 1>>) \o NonBlankFrom(data, p + 1)

HasDuplicates(s) == \E i, j \in 1..Len(s) : i < j /\ s[i] = s[j]

Cells(fields, width, na) ==
    [i \in 1..width |-> IF i > Len(fields) THEN NaN
                        ELSE IF fields[i] = na THEN NaN ELSE fields[i]]

\* The frame of the rows raw (their fields), for the column names given.
make_frame(r, raw, first, names, na) ==
    Let(IF names # None
        THEN Max(Len(names[1]), IF Len(raw) > 0 THEN Len(raw[1]) ELSE 0)
        ELSE first, LAMBDA width :
    Let(IF names # None THEN names[1] ELSE [i \in 1..width |-> IntLabel(i - 1)],
        LAMBDA columns :
        IF \E i \in 1..Len(raw) : Len(raw[i]) > width
        THEN Raise(r, <<"ParserError", "Error tokenizing data">>)
        ELSE Ret(r, [columns |-> columns,
                     nidx |-> width - Len(columns),
                     rows |-> [i \in 1..Len(raw) |-> Cells(raw[i], width, na)],
                     indexed |-> FALSE,
                     index |-> <<>>])))

\* drift: how many lines past the last row it returns the parser has read
\* when it returns (it reads its input in chunks).
pd_read_table(r, sepComma, names, nrows, na, drift) ==
    Let(Data(r), LAMBDA data :
    Let(NonBlankFrom(data, tell(r)), LAMBDA avail :      \* skip_blank_lines=True
    Let(SubSeq(avail, 1, Min(nrows, Len(avail))), LAMBDA taken :
    Let(seek(r, Min(Len(data), (IF taken = <<>> THEN tell(r) ELSE Last(taken)) + drift)),
        LAMBDA after :
        IF names # None /\ HasDuplicates(names[1])
        THEN Raise(r, <<"ValueError", "Duplicate names are not allowed.">>)
        ELSE IF names = None /\ avail = <<>>
        THEN Raise(after, <<"EmptyDataError", "No columns to parse from file">>)
        ELSE make_frame(after,
                        [i \in 1..Len(taken) |-> Fields(data[taken[i]], sepComma)],
                        IF avail = <<>> THEN 0 ELSE Len(Fields(data[avail[1]], sepComma)),
                        names, na)))))

\* df['Datetime'] = dates; df = df.set_index('Datetime').  A frame without
\* rows takes the length of the list assigned to it, its cells missing.
set_datetime_index(df, dates) ==
    IF Len(df.rows) = 0
    THEN [ok |-> TRUE,
          df |-> [df EXCEPT !.rows = [i \in 1..Len(dates) |->
                                        [j \in 1..(df.nidx + Len(df.columns)) |-> NaN]],
                            !.indexed = TRUE, !.index = dates]]
    ELSE IF Len(df.rows) # Len(dates) THEN [ok |-> FALSE, df |-> df]
    ELSE [ok |-> TRUE, df |-> [df EXCEPT !.indexed = TRUE, !.index = dates]]

\* list.insert(0, x)
insert0(list, x) == <<x>> \o list

AttributeError == <<"AttributeError", "'bool' object has no attribute 'replace'">>

\* The units row, then the ID column (lines 161-163).
read_units(r, parameters, id_col) ==
    Let(nexttag(r), LAMBDA t2 :
        IF t2.exc # NoExc THEN t2
        ELSE IF t2.ret = False THEN Raise(t2.f, AttributeError)
        ELSE Ret(t2.f, [parameters |-> <<IF id_col THEN insert0(parameters, "ID")
                                         ELSE parameters>>,
                        units |-> Tail(t2.ret.tok)]))

\* The names row (lines 159-160).
read_names(r, id_col) ==
    Let(nexttag(r), LAMBDA t1 :
        IF t1.exc # NoExc THEN t1
        ELSE IF t1.ret = False THEN Raise(t1.f, AttributeError)
        ELSE read_units(t1.f, Tail(t1.ret.tok), id_col))

\* The header part of read_RavenFrame (lines 156-163): ret is
\* [parameters, units]; parameters is None or <<list>>.
read_header(r, header, names, id_col) ==
    IF ~header THEN Ret(r, [parameters |-> names, units |-> <<>>])
    ELSE IF names = None THEN read_names(r, id_col)
    ELSE read_units(r, names[1], id_col)

\* Dates that start one step late.
make_dates_late(time_tuple, nvalues) ==
    [d \in 1..nvalues |-> time_tuple[1] + time_tuple[2] * d]

\* dates = [time_tuple[0] + time_tuple[1] * d for d in range(0, nvalues)]
make_dates(time_tuple, nvalues) ==
    [d \in 1..nvalues |-> time_tuple[1] + time_tuple[2] * (d - 1)]

\* Lines 183-192: the position corrected, the index set.  r1 is the reader as
\* it was right after the header, rt what read_table returned.
finish_frame(r1, rt, nv, units, time_tuple) ==
    IF rt.exc # NoExc THEN rt
    ELSE
    Let(skiplines(seek(rt.f, tell(r1)), nv), LAMBDA r2 :
    Let(IF time_tuple # None THEN set_datetime_index(rt.ret, make_dates(time_tuple, nv))
        ELSE [ok |-> TRUE, df |-> rt.ret], LAMBDA ix :
        IF ~ix.ok
        THEN Raise(r2, <<"ValueError", "Length of values does not match length of index">>)
        ELSE [f |-> r2, exc |-> NoExc,
              ret |-> [df |-> ix.df, units |-> units],
              hdr |-> r1, nv |-> nv]))

\* Lines 166-182: the row count, the delimiter, the rows.
read_rows(r1, nvalues, parameters, units, time_tuple, na, drift) ==
    Let(IF nvalues = None THEN get_datadist(r1) ELSE Ret(r1, nvalues[1]), LAMBDA dd :
    Let(comma_detector(dd.f), LAMBDA cd :
        finish_frame(r1, pd_read_table(cd.f, cd.ret, parameters, dd.ret, na, drift),
                     dd.ret, units, time_tuple)))

\* read_RavenFrame.  nvalues, names and time_tuple are None or <<value>>
\* (time_tuple: <<start, delta>>).  The result also tells, for the record, the
\* reader as it was right after the header (hdr) and the row count used (nv).
read_RavenFrame(r, nvalues, header, names, id_col, time_tuple, na, drift) ==
    Let(read_header(r, header, names, id_col), LAMBDA hd :
        IF hd.exc # NoExc THEN hd
        ELSE read_rows(hd.f, nvalues, hd.ret.parameters, hd.ret.units,
                       time_tuple, na, drift))

(***************************************************************************)
(* Python dicts: [keys, val], the keys in insertion order.                 *)
(***************************************************************************)
EmptyDict == [keys |-> <<>>, val |-> <<>>]
dict_has(d, k) == k \in Range(d.keys)
\* A dict whose assignment keeps the value a key already has.
dict_set_keep(d, k, v) ==
    [keys |-> IF dict_has(d, k) THEN d.keys ELSE Append(d.keys, k),
     val |-> [x \in Range(d.keys) \cup {k} |->
                IF x \in Range(d.keys) THEN d.val[x] ELSE v]]
\* d[k] = v
dict_set(d, k, v) ==
    [keys |-> IF dict_has(d, k) THEN d.keys ELSE Append(d.keys, k),
     val |-> [x \in Range(d.keys) \cup {k} |-> IF x = k THEN v ELSE d.val[x]]]

\* len(d)
dict_len(d) == Len(d.keys)

\* A units value: the string of a :Data or :ObservationData tag, or the list
\* of a units row.
Str(u) == [t |-> "str", v |-> <<u>>]
List(l) == [t |-> "list", v |-> l]

(***************************************************************************)
(* RavenFile.cleantag                                                      *)
(***************************************************************************)
cleantag(line) == IF line.tok = <<>> THEN "" ELSE StripColon(line.tok[1])

(***************************************************************************)
(* The program state as one record S, and the steps of the format readers  *)
(* as functions of it.  S.pc is the loop test about to be evaluated:       *)
(*   "start"     the read method has been called                           *)
(*   "rvt_read"  the while of RavenRVT.read (line 271)                     *)
(*   "metgauge"  the while of RavenRVT.read_metgauge (line 289)            *)
(*   "rvh_read"  the while of RavenRVH.read (line 412)                     *)
(*   "done"      read returned;  "raised"  read raised S.exc               *)
(* S.hist is history: hist.blocks, one entry per call of read_metgauge     *)
(* (name, its gauge_dict object, the data tag that last stored it in       *)
(* metgauges, <<>> when none did);                                         *)
(* hist.frame, the last call of read_RavenFrame; hist.obs, the last call   *)
(* of read_obsgauge; hist.call, the last accessor or reader call;          *)
(* hist.seen, every value the loops of the read methods have taken as line. *)
(***************************************************************************)
NoHist == [blocks |-> <<>>, frame |-> <<>>, obs |-> <<>>, call |-> <<>>, seen |-> <<>>]
NoLoc == [line |-> EmptyStr, name |-> "", gauge_dict |-> 0]
NewRVT == [metgauges |-> EmptyDict, obsgauges |-> EmptyDict]
NewRVH == [subbasins |-> None, hrus |-> None, nsubbasins |-> 0, nhrus |-> 0,
           total_area |-> <<"float", 0>>]

\* An exception leaves the with statement: __exit__ runs, the exception goes on.
Fail(S, r, e) == [S EXCEPT !.f = exit(r), !.exc = e, !.pc = "raised"]

\* line = f.nexttag(), then the loop test at pcnext.
Advance(S, r, pcnext) ==
    Let(nexttag(r), LAMBDA t :
        IF t.exc # NoExc THEN Fail(S, t.f, t.exc)
        ELSE [S EXCEPT !.f = t.f, !.loc.line = t.ret, !.pc = pcnext,
                       !.hist.seen = Append(@, t.ret)])

\* What hist.frame keeps of a call of read_RavenFrame that returned.
FrameRecord(res, header, id_col) ==
    <<[hdr_fileobject |-> res.hdr.fileobject, hdr_pos |-> tell(res.hdr),
       hdr_backburner |-> res.hdr.backburner,
       nv |-> res.nv, header |-> header, id_col |-> id_col,
       fileobject |-> res.f.fileobject, pos |-> tell(res.f),
       backburner |-> res.f.backburner, df |-> res.ret.df]>>

\* with RavenFileReader(filename) as f: line = f.nexttag()   (lines 269-270, 410-411)
read_enter(S, pcnext) == Advance(S, enter(S.f), pcnext)

\* while line: is over; the with statement ends.     (lines 271, 412)
read_exit(S) == [S EXCEPT !.f = exit(S.f), !.pc = "done"]

\* read, any other tag: line = f.nexttag()           (lines 278, 419)
read_other(S, pcnext) == Advance(S, S.f, pcnext)

\* read, :Gauge: read_metgauge to its loop test      (lines 273-274, 286-288)
rvt_gauge(S) ==
    IF Len(S.loc.line.tok) < 2
    THEN Fail(S, S.f, <<"IndexError", "list index out of range">>)
    ELSE Advance([S EXCEPT !.heap = Append(@, EmptyDict),
                           !.loc.name = S.loc.line.tok[2],
                           !.loc.gauge_dict = Len(S.heap) + 1,
                           !.hist.blocks = Append(@, [name |-> S.loc.line.tok[2],
                                                      obj |-> Len(S.heap) + 1,
                                                      commit |-> <<>>])],
                 S.f, "metgauge")

\* rename(columns={0: 'QObs'})
rename_0_QObs(df) ==
    [df EXCEPT !.columns = [i \in 1..Len(df.columns) |->
                              IF df.columns[i] = IntLabel(0) THEN "QObs" ELSE df.columns[i]]]

\* Lines 327-333 of read_obsgauge: g is gauge_dict so far.
obs_data(r, id, g, drift) ==
    Let(read_dateline(r), LAMBDA dl :
        IF dl.exc # NoExc THEN dl
        ELSE
        Let(read_RavenFrame(dl.f, <<dl.ret.nvalues>>, FALSE, None, FALSE,
                            dl.ret.time_tuple, na_values_default, drift), LAMBDA fr :
            IF fr.exc # NoExc THEN fr
            ELSE [f |-> fr.f, exc |-> NoExc,
                  ret |-> <<id, dict_set(g, "Data",
                                         IF g.val["Type"] = "HYDROGRAPH"
                                         THEN rename_0_QObs(fr.ret.df) ELSE fr.ret.df)>>,
                  frame |-> FrameRecord(fr, FALSE, FALSE),
                  nvalues |-> dl.ret.nvalues]))

\* read_obsgauge (lines 322-333); ret is the pair <<id, gauge_dict>> to store.
read_obsgauge(line, r, drift) ==
    IF Len(line.tok) < 2 THEN Raise(r, <<"IndexError", "list index out of range">>)
    ELSE IF Len(line.tok) < 3 THEN Raise(r, <<"IndexError", "list index out of range">>)
    ELSE IF line.tok[3] \notin IntToks
    THEN Raise(r, <<"ValueError", "invalid literal for int()">>)
    ELSE Let(dict_set(EmptyDict, "Type", line.tok[2]), LAMBDA g1 :
             obs_data(r, int(line.tok[3]),
                      IF Len(line.tok) > 3 THEN dict_set(g1, "Units", Str(line.tok[4]))
                      ELSE g1,
                      drift))

\* What hist.obs keeps of a call of read_obsgauge that returned: the reader
\* before (r) and after (o.f).
ObsRecord(r, o) ==
    <<[id |-> o.ret[1], nvalues |-> o.nvalues,
       fileobject |-> r.fileobject, pos |-> tell(r), backburner |-> r.backburner,
       after_fileobject |-> o.f.fileobject, after_pos |-> tell(o.f),
       after_backburner |-> o.f.backburner]>>

\* read, :ObservationData                            (lines 275-278)
rvt_obs(S, drift) ==
    Let(read_obsgauge(S.loc.line, S.f, drift), LAMBDA o :
        IF o.exc # NoExc THEN Fail(S, o.f, o.exc)
        ELSE Advance([S EXCEPT !.rvt.obsgauges = dict_set(@, o.ret[1], o.ret[2]),
                               !.hist.frame = o.frame,
                               !.hist.obs = ObsRecord(S.f, o)],
                     o.f, "rvt_read"))

\* read_metgauge returns (EndGauge, or no more tags); read goes on   (lines 289-292, 278)
mg_return(S) == Advance([S EXCEPT !.loc.name = "", !.loc.gauge_dict = 0], S.f, "rvt_read")

\* gauge_dict[key] = value: the object, wherever it is referred to.
gauge_set(S, key, value) ==
    [S EXCEPT !.heap[S.loc.gauge_dict] = dict_set(@, key, value)]

\* A store that puts a copy of the object, as it is now, into the mapping.
metgauges_store_copy(S) ==
    [S EXCEPT !.heap = Append(@, S.heap[S.loc.gauge_dict]),
              !.rvt.metgauges = dict_set(@, S.loc.name, Len(S.heap) + 1),
              !.hist.blocks[Len(S.hist.blocks)].commit = <<S.loc.line>>]

\* self.metgauges[name] = gauge_dict: the mapping refers to the object.
metgauges_store(S) ==
    [S EXCEPT !.rvt.metgauges = dict_set(@, S.loc.name, S.loc.gauge_dict),
              !.hist.blocks[Len(S.hist.blocks)].commit = <<S.loc.line>>]

\* A field tag that also stores the record.
mg_field_store(S) ==
    IF Len(S.loc.line.tok) < 2 \/ S.loc.line.tok[2] \notin FloatToks
    THEN Fail(S, S.f, <<"ValueError", "could not convert string to float">>)
    ELSE Advance(metgauges_store(gauge_set(S, cleantag(S.loc.line),
                                           float(S.loc.line.tok[2]))),
                 S.f, "metgauge")

\* :Latitude, :Longitude, :Elevation                 (lines 293-298, 314)
mg_field(S) ==
    IF Len(S.loc.line.tok) < 2
    THEN Fail(S, S.f, <<"IndexError", "list index out of range">>)
    ELSE IF S.loc.line.tok[2] \notin FloatToks
    THEN Fail(S, S.f, <<"ValueError", "could not convert string to float">>)
    ELSE Advance(gauge_set(S, cleantag(S.loc.line), float(S.loc.line.tok[2])),
                 S.f, "metgauge")

\* read_dateline and read_RavenFrame of a data tag inside a gauge
\* (lines 300-301, 309-310).
gauge_frame(r, header, drift) ==
    Let(read_dateline(r), LAMBDA dl :
        IF dl.exc # NoExc THEN dl
        ELSE read_RavenFrame(dl.f, <<dl.ret.nvalues>>, header, None, FALSE,
                             dl.ret.time_tuple, na_values_default, drift))

\* :MultiData                                        (lines 299-305, 314)
mg_multidata(S, drift) ==
    Let(gauge_frame(S.f, TRUE, drift), LAMBDA fr :
        IF fr.exc # NoExc THEN Fail(S, fr.f, fr.exc)
        ELSE Advance([metgauges_store(
                         gauge_set(gauge_set(gauge_set(S, "Type", "MultiData"),
                                             "Data", fr.ret.df),
                                   "Units", List(fr.ret.units)))
                      EXCEPT !.hist.frame = FrameRecord(fr, TRUE, FALSE)],
                     fr.f, "metgauge"))

\* Lines 309-312 of :Data: S1 has Type and Units set.
mg_data_frame(S1, drift) ==
    Let(gauge_frame(S1.f, FALSE, drift), LAMBDA fr :
        IF fr.exc # NoExc THEN Fail(S1, fr.f, fr.exc)
        ELSE Advance([metgauges_store(gauge_set(S1, "Data", fr.ret.df))
                      EXCEPT !.hist.frame = FrameRecord(fr, FALSE, FALSE)],
                     fr.f, "metgauge"))

\* :Data                                             (lines 306-312, 314)
mg_data(S, drift) ==
    IF Len(S.loc.line.tok) < 2
    THEN Fail(S, S.f, <<"IndexError", "list index out of range">>)
    ELSE IF Len(S.loc.line.tok) < 3
    THEN Fail(gauge_set(S, "Type", S.loc.line.tok[2]), S.f,
              <<"IndexError", "list index out of range">>)
    ELSE mg_data_frame(gauge_set(gauge_set(S, "Type", S.loc.line.tok[2]),
                                 "Units", Str(S.loc.line.tok[3])),
                       drift)

\* A skipped tag inside a gauge that stores the record.
mg_other_store(S) == Advance(metgauges_store(S), S.f, "metgauge")

\* any other tag inside a gauge                      (line 314)
mg_other(S) == Advance(S, S.f, "metgauge")

(***************************************************************************)
(* RavenRVH                                                                *)
(***************************************************************************)
\* df[name]: the cells of the column, None when there is no such column.
column(df, name) ==
    IF name \notin Range(df.columns) THEN None
    ELSE Let(CHOOSE j \in 1..Len(df.columns) : df.columns[j] = name, LAMBDA j :
             <<[i \in 1..Len(df.rows) |-> df.rows[i][df.nidx + j]]>>)

\* Series.sum(), skipna=True: <<"float", tenths>>.  A column holding a cell
\* that is no number is a column of strings: their concatenation <<"str">>,
\* or a TypeError when a missing cell is among them.
series_sum(cells) ==
    IF \A i \in 1..Len(cells) : cells[i] = NaN \/ cells[i] \in FloatToks
    THEN <<"float", SumSeq([i \in 1..Len(cells) |->
                              IF cells[i] = NaN THEN 0 ELSE float(cells[i])])>>
    ELSE IF \E i \in 1..Len(cells) : cells[i] = NaN THEN <<"TypeError">>
    ELSE <<"str">>

\* read, :SubBasins: read_subbasins                  (lines 414-415, 425-426, 419)
rvh_subbasins(S, drift) ==
    Let(read_RavenFrame(S.f, None, TRUE, None, TRUE, None, na_values_default, drift),
        LAMBDA fr :
        IF fr.exc # NoExc THEN Fail(S, fr.f, fr.exc)
        ELSE Advance([S EXCEPT !.rvh.subbasins = <<fr.ret.df>>,
                               !.rvh.nsubbasins = Len(fr.ret.df.rows),
                               !.hist.frame = FrameRecord(fr, TRUE, TRUE)],
                     fr.f, "rvh_read"))

\* self.total_area = self.hrus['AREA'].sum(), and on   (lines 434, 419)
hrus_area(S1, r, area) ==
    IF area = None THEN Fail(S1, r, <<"KeyError", "AREA">>)
    ELSE Let(series_sum(area[1]), LAMBDA total :
             IF total = <<"TypeError">>
             THEN Fail(S1, r, <<"TypeError", "unsupported operand type(s)">>)
             ELSE Advance([S1 EXCEPT !.rvh.total_area = total], r, "rvh_read"))

\* read, :HRUs: read_HRUs                            (lines 416-417, 432-434, 419)
rvh_hrus(S, drift) ==
    Let(read_RavenFrame(S.f, None, TRUE, None, TRUE, None, na_values_default, drift),
        LAMBDA fr :
        IF fr.exc # NoExc THEN Fail(S, fr.f, fr.exc)
        ELSE hrus_area([S EXCEPT !.rvh.hrus = <<fr.ret.df>>,
                                 !.rvh.nhrus = Len(fr.ret.df.rows),
                                 !.hist.frame = FrameRecord(fr, TRUE, TRUE)],
                       fr.f, column(fr.ret.df, "AREA")))

(***************************************************************************)
(* The accessors imet and iobs.                                            *)
(***************************************************************************)
\* An indexing that wraps around the end of the list.
list_index_wrap(list, i) ==
    IF Len(list) = 0 THEN None ELSE <<list[(i % Len(list)) + 1]>>

\* list[i] of a Python list: <<element>>, or None for an IndexError.
list_index(list, i) ==
    IF i >= Len(list) \/ i < -Len(list) THEN None
    ELSE <<list[IF i >= 0 THEN i + 1 ELSE Len(list) + i + 1]>>

\* ret is <<DataFrame>>.  values(k): the gauge_dict stored under key k.
accessor(gauges, values(_), i) ==
    IF i > dict_len(gauges)
    THEN [exc |-> <<"IndexError", "Gauge index higher than number of gauges">>, ret |-> None]
    ELSE Let(list_index(gauges.keys, i), LAMBDA k :
             IF k = None
             THEN [exc |-> <<"IndexError", "list index out of range">>, ret |-> None]
             ELSE IF ~dict_has(values(k[1]), "Data")
             THEN [exc |-> <<"KeyError", "Data">>, ret |-> None]
             ELSE [exc |-> NoExc, ret |-> <<values(k[1]).val["Data"]>>])

imet(S, i) == LET v(k) == S.heap[S.rvt.metgauges.val[k]]
              IN  accessor(S.rvt.metgauges, v, i)
iobs(S, i) == LET v(k) == S.rvt.obsgauges.val[k]
              IN  accessor(S.rvt.obsgauges, v, i)

(***************************************************************************)
(* The dispatch of the two loops of RavenRVT, and one step of a read pass. *)
(***************************************************************************)
\* Which branch the loop at S.pc takes on S.loc.line.
rvt_case(S) ==
    Let(S.loc.line, LAMBDA line :
    CASE S.pc = "start" -> "enter"
      [] S.pc = "rvt_read" ->
            (IF ~Truthy(line) THEN "exit"
             ELSE IF cleantag(line) = "Gauge" THEN "gauge"
             ELSE IF cleantag(line) = "ObservationData" THEN "obs"
             ELSE "other")
      [] S.pc = "metgauge" ->
            (IF ~Truthy(line) THEN "mg_return"
             ELSE IF cleantag(line) = "EndGauge" THEN "mg_return"
             ELSE IF cleantag(line) \in {"Latitude", "Longitude", "Elevation"} THEN "mg_field"
             ELSE IF cleantag(line) = "MultiData" THEN "mg_multidata"
             ELSE IF cleantag(line) = "Data" THEN "mg_data"
             ELSE "mg_other")
      [] OTHER -> "none")

rvt_step(S, drift) ==
    Let(rvt_case(S), LAMBDA c :
    CASE c = "enter" -> read_enter(S, "rvt_read")
      [] c = "exit" -> read_exit(S)
      [] c = "gauge" -> rvt_gauge(S)
      [] c = "obs" -> rvt_obs(S, drift)
      [] c = "other" -> read_other(S, "rvt_read")
      [] c = "mg_return" -> mg_return(S)
      [] c = "mg_field" -> mg_field(S)
      [] c = "mg_multidata" -> mg_multidata(S, drift)
      [] c = "mg_data" -> mg_data(S, drift)
      [] c = "mg_other" -> mg_other(S)
      [] OTHER -> S)

\* RavenRVT(filename) / RavenRVH(filename) on file system fs, read not yet begun.
NewState(fs, filename, refcount) ==
    [f |-> RavenFileReader(fs, filename, refcount), heap |-> <<>>, rvt |-> NewRVT, rvh |-> NewRVH,
     pc |-> "start", loc |-> NoLoc, exc |-> NoExc, hist |-> NoHist]

\* RavenRVT.read run to its end.
RECURSIVE rvt_run(_)
rvt_run(S) == IF S.pc \in {"done", "raised"} THEN S ELSE rvt_run(rvt_step(S, 0))

\* Which branch the loop of RavenRVH.read takes on S.loc.line.
rvh_case(S) ==
    Let(S.loc.line, LAMBDA line :
    CASE S.pc = "start" -> "enter"
      [] S.pc = "rvh_read" ->
            (IF ~Truthy(line) THEN "exit"
             ELSE IF cleantag(line) = "SubBasins" THEN "subbasins"
             ELSE IF cleantag(line) = "HRUs" THEN "hrus"
             ELSE "other")
      [] OTHER -> "none")

(***************************************************************************)
(* Input files.  A time-series document is a sequence of chunks: gauge     *)
(* blocks, observation blocks, blank lines and other tags.                 *)
(***************************************************************************)
NRows == 2          \* data rows of a generated table
MaxCut == 1         \* lines cut off the end of a generated document
MaxIndex == 3       \* largest index passed to an accessor
MaxLines == 3       \* lines of a file handed to the reader directly
MaxHint == 2        \* largest row count passed to read_RavenFrame

CountTok(n) == CASE n = 0 -> "0" [] n = 1 -> "1" [] n = 2 -> "2" [] n = 3 -> "3"
                 [] n = 4 -> "4" [] n = 5 -> "5" [] OTHER -> "6"
DateLine(n) == Txt(<<"2000-01-01", "00:00:00", "1.0", CountTok(n)>>)
Row1(i) == Txt(<<CountTok(i)>>)
Row2(i) == Txt(<<CountTok(i), "10">>)

ItemKinds == {"lat", "lat2", "elev", "md", "dt", "other"}
ItemLines(k) ==
    CASE k = "lat" -> <<Txt(<<":Latitude", "45.0">>)>>
      [] k = "lat2" -> <<Txt(<<":Latitude", "-75.0">>)>>
      [] k = "elev" -> <<Txt(<<":Elevation", "10">>)>>
      [] k = "md" -> <<Txt(<<":MultiData">>), DateLine(NRows),
                       Txt(<<":Parameters", "PRECIP", "TEMP">>),
                       Txt(<<":Units", "mm", "C">>)>>
                     \o [i \in 1..NRows |-> Row2(i)]
      [] k = "dt" -> <<Txt(<<":Data", "TEMP", "C">>), DateLine(NRows)>>
                     \o [i \in 1..NRows |-> Row1(i)]
      [] k = "other" -> <<Txt(<<":Other">>)>>

GaugeChunk(name, items, end) ==
    <<Txt(<<":Gauge", name>>)>>
    \o Flatten([i \in 1..Len(items) |-> ItemLines(items[i])])
    \o (IF end THEN <<Txt(<<":EndGauge">>)>> ELSE <<>>)

ObsChunk(type, id, units) ==
    <<Txt(<<":ObservationData", type, id>> \o units), DateLine(NRows)>>
    \o [i \in 1..NRows |-> Row1(i)]

\* The tags inside a generated gauge block.
Bodies == {<<>>, <<"lat">>, <<"elev">>, <<"other">>, <<"md">>, <<"dt">>,
           <<"lat", "md">>, <<"md", "lat">>, <<"dt", "elev">>,
           <<"md", "dt">>, <<"dt", "md">>, <<"other", "md">>,
           <<"lat", "md", "lat2">>}

GaugeChunks ==
    {GaugeChunk(name, items, end) :
        name \in {"A", "B"}, items \in Bodies, end \in BOOLEAN}
ObsChunks ==
    {ObsChunk("HYDROGRAPH", "5", <<"m3/s">>), ObsChunk("HYDROGRAPH", "5", <<>>),
     ObsChunk("STAGE", "5", <<>>), ObsChunk("HYDROGRAPH", "6", <<>>)}
Chunks == GaugeChunks \cup ObsChunks
          \cup {<<EmptyStr>>, <<Txt(<<":Other">>)>>, ItemLines("lat")}

\* The chunks of the documents that are split over several files.
SplitChunks ==
    {GaugeChunk("A", items, end) :
        items \in {<<>>, <<"lat">>, <<"md">>, <<"dt">>}, end \in BOOLEAN}
    \cup {ObsChunk("HYDROGRAPH", "5", <<>>)}

Main == "main"
Redirect(name) == Txt(<<":RedirectToFile", name>>)

\* doc with its lines i+1..j moved to another file: <<what is left, with a
\* redirect directive to file name in their place; the lines moved>>.
Split(doc, i, j, name) ==
    <<SubSeq(doc, 1, i) \o <<Redirect(name)>> \o SubSeq(doc, j + 1, Len(doc)),
      SubSeq(doc, i + 1, j)>>

\* The content of file name with every redirect directive to an existing file
\* replaced by the content of its target, to depth levels of nesting.
RECURSIVE Inline(_, _, _)
Inline(fs, name, depth) ==
    LET data == fs[name]
        Piece(line) ==
            IF /\ startswith_redirect(line)
               /\ Len(line.tok) >= 2
               /\ line.tok[2] \in DOMAIN fs
               /\ depth > 0
            THEN Inline(fs, line.tok[2], depth - 1)
            ELSE <<line>>
    IN  Flatten([i \in 1..Len(data) |-> Piece(data[i])])

\* Every redirect directive names an existing file, and no chain of them
\* comes back to a file it left.
RECURSIVE ValidChain(_, _, _)
ValidChain(fs, name, seen) ==
    \A i \in 1..Len(fs[name]) :
        LET line == fs[name][i] IN
        startswith_redirect(line) =>
            /\ Len(line.tok) >= 2
            /\ line.tok[2] \in DOMAIN fs
            /\ line.tok[2] \notin seen \cup {name}
            /\ ValidChain(fs, line.tok[2], seen \cup {name})

(***************************************************************************)
(* The state machine.                                                      *)
(***************************************************************************)
Cur == [f |-> f, heap |-> heap, rvt |-> rvt, rvh |-> rvh,
        pc |-> pc, loc |-> loc, exc |-> exc, hist |-> hist]

Become(S) ==
    /\ f' = S.f
    /\ heap' = S.heap
    /\ rvt' = S.rvt
    /\ rvh' = S.rvh
    /\ pc' = S.pc
    /\ loc' = S.loc
    /\ exc' = S.exc
    /\ hist' = S.hist

Start(fs) ==
    \E refcount \in BOOLEAN :
    LET S == NewState(fs, Main, refcount) IN
    /\ f = S.f
    /\ heap = S.heap
    /\ rvt = S.rvt
    /\ rvh = S.rvh
    /\ pc = S.pc
    /\ loc = S.loc
    /\ exc = S.exc
    /\ hist = S.hist

\* RavenRVT.read on a time-series document of at most two chunks in one
\* file, possibly cut short.
InitDocs ==
    \E a \in Chunks \cup {<<>>}, b \in Chunks \cup {<<>>}, c \in 0..MaxCut :
        Start((Main :> SubSeq(a \o b, 1, Len(a \o b) - c)))

\* RavenRVT.read on a one-chunk document split over files: a part of it moved
\* to file f2, a part of that possibly moved on to file f3; the target of a
\* directive may be missing.
InitRedirect ==
    \E doc \in SplitChunks :
        \E i \in 0..Len(doc) : \E j \in i..Len(doc) :
            LET s1 == Split(doc, i, j, "f2")
                s0 == Split(doc, i, j, "nofile")
            IN  \/ Start((Main :> s1[1]) @@ ("f2" :> s1[2]))
                \/ Start((Main :> s0[1]))
                \/ \E i2 \in 0..Len(s1[2]) : \E j2 \in i2..Len(s1[2]) :
                      LET s2 == Split(s1[2], i2, j2, "f3") IN
                      \/ Start((Main :> s1[1]) @@ ("f2" :> s2[1]) @@ ("f3" :> s2[2]))
                      \/ Start((Main :> s1[1]) @@ ("f2" :> s2[1]))

\* RavenRVT.read on a document with a directive that leads back: to the file
\* it stands in, or from file f2 to the file that redirected to f2.
CycleChunks == {GaugeChunk("A", <<"lat">>, TRUE), GaugeChunk("A", <<"dt">>, TRUE)}
InitCycle ==
    \E doc \in CycleChunks :
        \E i \in 0..Len(doc) : \E j \in i..Len(doc) :
            \/ Start((Main :> Split(doc, i, j, Main)[1]))
            \/ Start((Main :> Split(doc, i, j, "f2")[1])
                      @@ ("f2" :> Append(Split(doc, i, j, "f2")[2], Redirect(Main))))

Init == InitDocs \/ InitRedirect \/ InitCycle

RvtEnter == rvt_case(Cur) = "enter" /\ Become(read_enter(Cur, "rvt_read"))
RvtExit == rvt_case(Cur) = "exit" /\ Become(read_exit(Cur))
RvtGauge == rvt_case(Cur) = "gauge" /\ Become(rvt_gauge(Cur))
RvtObs == rvt_case(Cur) = "obs" /\ \E drift \in 0..MaxDrift : Become(rvt_obs(Cur, drift))
RvtOther == rvt_case(Cur) = "other" /\ Become(read_other(Cur, "rvt_read"))
MgReturn == rvt_case(Cur) = "mg_return" /\ Become(mg_return(Cur))
MgField == rvt_case(Cur) = "mg_field" /\ Become(mg_field(Cur))
MgMultiData ==
    rvt_case(Cur) = "mg_multidata" /\ \E drift \in 0..MaxDrift : Become(mg_multidata(Cur, drift))
MgData == rvt_case(Cur) = "mg_data" /\ \E drift \in 0..MaxDrift : Become(mg_data(Cur, drift))
MgOther == rvt_case(Cur) = "mg_other" /\ Become(mg_other(Cur))

\* A caller of the RavenRVT object, after read returned or raised: imet(i),
\* iobs(i).  hist.call keeps the call and how it ended.
AccessIndex == -1..MaxIndex
Imet ==
    /\ pc \in {"done", "raised"}
    /\ \E i \in AccessIndex :
          hist' = [hist EXCEPT !.call = <<[op |-> "imet", i |-> i,
                                           count |-> dict_len(rvt.metgauges)]
                                          @@ imet(Cur, i)>>]
    /\ UNCHANGED <<f, heap, rvt, rvh, pc, loc, exc>>
Iobs ==
    /\ pc \in {"done", "raised"}
    /\ \E i \in AccessIndex :
          hist' = [hist EXCEPT !.call = <<[op |-> "iobs", i |-> i,
                                           count |-> dict_len(rvt.obsgauges)]
                                          @@ iobs(Cur, i)>>]
    /\ UNCHANGED <<f, heap, rvt, rvh, pc, loc, exc>>

RvtNext ==
    \/ RvtEnter
    \/ RvtExit
    \/ RvtGauge
    \/ RvtObs
    \/ RvtOther
    \/ MgReturn
    \/ MgField
    \/ MgMultiData
    \/ MgData
    \/ MgOther

Next == RvtNext

Spec == Init /\ [][Next]_vars

\* RavenRVT.read on a document of at most three chunks, and then the accessors.
AccessChunks ==
    {GaugeChunk("A", <<"lat", "md">>, TRUE), GaugeChunk("B", <<"other", "dt">>, TRUE),
     ObsChunk("HYDROGRAPH", "5", <<>>), ObsChunk("STAGE", "6", <<>>),
     <<Txt(<<":Other">>)>>, <<>>}

InitAccess ==
    \E a \in AccessChunks, b \in AccessChunks, c \in AccessChunks :
        Start((Main :> a \o b \o c))

NextAccess == RvtNext \/ Imet \/ Iobs

SpecAccess == InitAccess /\ [][NextAccess]_vars

(***************************************************************************)
(* RavenRVH.read on a basin definition document: a SubBasins table, an     *)
(* HRUs table, or both in either order.  A table is its tag, the two       *)
(* header rows, its data rows (all comma separated or all whitespace       *)
(* separated) and what ends it.                                            *)
(***************************************************************************)
AreaToks == {"10", "20", na_values_default}
HruRow(id, area, comma) ==
    [tok |-> <<CountTok(id), area, "5">>, comma |-> comma]
SubRow(id, comma) == [tok |-> <<CountTok(id), "A">>, comma |-> comma]

\* What may follow the last data row of a table.
Endings(endtag) ==
    {<<Txt(<<endtag>>)>>, <<EmptyStr, Txt(<<endtag>>)>>, <<EmptyStr>>, <<>>}

HruChunk(attrs, areas, comma, ending) ==
    <<Txt(<<":HRUs">>), Txt(<<":Attributes">> \o attrs), Txt(<<":Units", "km2", "m">>)>>
    \o [i \in 1..Len(areas) |-> HruRow(i, areas[i], comma)] \o ending

\* HRUs tables with an AREA column, and some without.
HruChunks ==
    {HruChunk(<<"AREA", "ELEVATION">>, areas, comma, ending) :
        areas \in SeqsUpTo(AreaToks, NRows),
        comma \in BOOLEAN,
        ending \in Endings(":EndHRUs")}
    \cup {HruChunk(<<"SLOPE", "ELEVATION">>, <<"10">>, comma, ending) :
        comma \in BOOLEAN,
        ending \in Endings(":EndHRUs")}

SubChunks ==
    {<<Txt(<<":SubBasins">>), Txt(<<":Attributes", "NAME">>), Txt(<<":Units", "none">>)>>
     \o [i \in 1..n |-> SubRow(i, comma)] \o ending :
        n \in 0..NRows, comma \in BOOLEAN, ending \in Endings(":EndSubBasins")}

InitRVH ==
    \/ \E a \in SubChunks \cup {<<>>}, b \in HruChunks : Start((Main :> a \o b))
    \/ \E a \in HruChunks \cup {<<>>}, b \in SubChunks : Start((Main :> a \o b))

RvhEnter == rvh_case(Cur) = "enter" /\ Become(read_enter(Cur, "rvh_read"))
RvhExit == rvh_case(Cur) = "exit" /\ Become(read_exit(Cur))
RvhSubBasins ==
    rvh_case(Cur) = "subbasins" /\ \E drift \in 0..MaxDrift : Become(rvh_subbasins(Cur, drift))
RvhHRUs == rvh_case(Cur) = "hrus" /\ \E drift \in 0..MaxDrift : Become(rvh_hrus(Cur, drift))
RvhOther == rvh_case(Cur) = "other" /\ Become(read_other(Cur, "rvh_read"))

NextRVH ==
    \/ RvhEnter
    \/ RvhExit
    \/ RvhSubBasins
    \/ RvhHRUs
    \/ RvhOther

SpecRVH == InitRVH /\ [][NextRVH]_vars

(***************************************************************************)
(* The methods of RavenFileReader called directly, inside a with           *)
(* statement, on a file of a few lines; a redirect directive in it leads   *)
(* to the file "f2".  pc is "api" while the caller goes on calling,        *)
(* "returned" or "raised" after its call of read_RavenFrame.               *)
(***************************************************************************)
ReaderLines ==
    {Txt(<<":Parameters", "P", "T">>), Txt(<<":Units", "mm", "C">>),
     Txt(<<"1", "10">>), Csv(<<"2", "20">>), EmptyStr, Redirect("f2")}
ReaderTarget == <<Txt(<<":Units", "mm", "C">>), Txt(<<"3", "30">>)>>

InitReader ==
    \E lines \in SeqsUpTo(ReaderLines, MaxLines), refcount \in BOOLEAN :
        /\ f = enter(RavenFileReader((Main :> lines) @@ ("f2" :> ReaderTarget),
                                     Main, refcount))
        /\ heap = <<>>
        /\ rvt = NewRVT
        /\ rvh = NewRVH
        /\ pc = "api"
        /\ loc = NoLoc
        /\ exc = NoExc
        /\ hist = NoHist

\* f.nexttag()
ApiNexttag ==
    /\ pc = "api"
    /\ Let(nexttag(f), LAMBDA t :
           /\ f' = t.f
           /\ exc' = t.exc
           /\ pc' = IF t.exc # NoExc THEN "raised" ELSE "api"
           /\ hist' = [hist EXCEPT !.call = <<[op |-> "nexttag", ret |-> t.ret]>>])
    /\ UNCHANGED <<heap, rvt, rvh, loc>>

\* f.read_RavenFrame(nvalues, header, names, id_col, time_tuple)
ApiReadFrame ==
    /\ pc = "api"
    /\ \E nvalues \in {None} \cup {<<n>> : n \in 0..MaxHint},
          header \in BOOLEAN,
          names \in {None, <<<<"P", "T">>>>},
          id_col \in BOOLEAN,
          time_tuple \in {None, <<0, 24>>, <<12, 0>>},
          drift \in 0..MaxDrift :
          Let(read_RavenFrame(f, nvalues, header, names, id_col, time_tuple,
                              na_values_default, drift), LAMBDA fr :
              /\ f' = fr.f
              /\ exc' = fr.exc
              /\ pc' = IF fr.exc # NoExc THEN "raised" ELSE "returned"
              /\ hist' = [hist EXCEPT
                             !.call = <<[op |-> "read_RavenFrame",
                                         hinted |-> nvalues # None,
                                         nvalues |-> nvalues,
                                         time_tuple |-> time_tuple,
                                         named |-> names # None,
                                         dated |-> time_tuple # None]>>,
                             !.frame = IF fr.exc # NoExc THEN <<>>
                                       ELSE FrameRecord(fr, header, id_col)])
    /\ UNCHANGED <<heap, rvt, rvh, loc>>

NextReader == ApiNexttag \/ ApiReadFrame

SpecReader == InitReader /\ [][NextReader]_vars

(***************************************************************************)
(* The scanning methods called directly on a file that may redirect to     *)
(* "f2", which may redirect to "f3"; a target may be empty, and may end    *)
(* with the directive that leads on.                                       *)
(***************************************************************************)
ScanLines == {Txt(<<":Parameters", "P", "T">>), Txt(<<"1", "10">>), EmptyStr, Redirect("f2")}
ScanTargets ==
    {<<>>, <<Redirect("f3")>>, <<Txt(<<":Units", "mm", "C">>)>>,
     <<Txt(<<":Units", "mm", "C">>), Redirect("f3")>>,
     <<Redirect("f3"), Txt(<<":Units", "mm", "C">>)>>,
     <<Txt(<<"3", "30">>)>>}
ScanLeaves == {<<>>, <<Txt(<<":Other">>)>>, <<Txt(<<"3", "30">>)>>,
               <<Txt(<<":Other">>), Txt(<<"3", "30">>)>>}

InitScan ==
    \E lines \in SeqsUpTo(ScanLines, MaxLines), t2 \in ScanTargets, t3 \in ScanLeaves,
       refcount \in BOOLEAN :
        /\ f = enter(RavenFileReader((Main :> lines) @@ ("f2" :> t2) @@ ("f3" :> t3),
                                     Main, refcount))
        /\ heap = <<>>
        /\ rvt = NewRVT
        /\ rvh = NewRVH
        /\ pc = "api"
        /\ loc = NoLoc
        /\ exc = NoExc
        /\ hist = NoHist

\* f.eof_check(); hist.call keeps the reader as it was before the call.
ApiEofCheck ==
    /\ pc = "api"
    /\ Let(eof_check(f), LAMBDA e :
           /\ f' = e.f
           /\ hist' = [hist EXCEPT !.call = <<[op |-> "eof_check", ret |-> e.ret,
                                               before |-> f]>>])
    /\ UNCHANGED <<heap, rvt, rvh, pc, loc, exc>>

\* f.get_datadist()
ApiGetDatadist ==
    /\ pc = "api"
    /\ Let(get_datadist(f), LAMBDA g :
           /\ f' = g.f
           /\ hist' = [hist EXCEPT !.call = <<[op |-> "get_datadist", ret |-> g.ret,
                                               before |-> f]>>])
    /\ UNCHANGED <<heap, rvt, rvh, pc, loc, exc>>

NextScan == ApiNexttag \/ ApiEofCheck \/ ApiGetDatadist

SpecScan == InitScan /\ [][NextScan]_vars

(***************************************************************************)
(* read_dateline called directly, on a file of date-step lines, well       *)
(* formed or not: fields missing, fields that do not parse, a field too    *)
(* many.                                                                   *)
(***************************************************************************)
DateFields ==
    {<<d, t, s, n>> : d \in {"2000-01-02", "Jan-2"}, t \in {"12:00:00", "noon"},
                      s \in {"0.5", "half"}, n \in {"2", "1.0"}}
DateLines ==
    {Txt(SubSeq(x, 1, k)) : x \in DateFields, k \in 0..4}
    \cup {Txt(Append(x, "days")) : x \in DateFields}

InitDate ==
    \E first \in DateLines, rest \in {<<>>, <<DateLine(2)>>, <<EmptyStr>>},
       refcount \in BOOLEAN :
        /\ f = enter(RavenFileReader((Main :> <<first>> \o rest), Main, refcount))
        /\ heap = <<>>
        /\ rvt = NewRVT
        /\ rvh = NewRVH
        /\ pc = "api"
        /\ loc = NoLoc
        /\ exc = NoExc
        /\ hist = NoHist

\* f.read_dateline()
ApiReadDateline ==
    /\ pc = "api"
    /\ Let(read_dateline(f), LAMBDA dl :
           /\ f' = dl.f
           /\ exc' = dl.exc
           /\ pc' = IF dl.exc # NoExc THEN "raised" ELSE "api"
           /\ hist' = [hist EXCEPT !.call = <<[op |-> "read_dateline", ret |-> dl.ret,
                                               before |-> f]>>])
    /\ UNCHANGED <<heap, rvt, rvh, loc>>

NextDate == ApiReadDateline

SpecDate == InitDate /\ [][NextDate]_vars

(***************************************************************************)
(* Properties of a read pass of RavenRVT.                                  *)
(***************************************************************************)
Ended == pc \in {"done", "raised"}

\* What a run shows to the outside: how it ended, the tags nexttag returned,
\* and the two gauge mappings with the records they refer to.
Observed(S) ==
    [pc |-> S.pc, exc |-> S.exc, tags |-> S.f.tags,
     metkeys |-> S.rvt.metgauges.keys,
     met |-> [k \in Range(S.rvt.metgauges.keys) |-> S.heap[S.rvt.metgauges.val[k]]],
     obs |-> S.rvt.obsgauges]

\* The same read of the one file that holds everything inlined.
InlinedRun ==
    rvt_run(NewState((Main :> Inline(f.fs, Main, 2)), Main, f.refcount))

\* C1: for a valid redirect chain, the finished read of the top-level file
\* shows the same result (how it ended, the tags returned, the gauge records
\* and their tables) as the read of the file with every redirect directive
\* replaced by the content of its target.
C1_RedirectIsInlining ==
    (Ended /\ ValidChain(f.fs, Main, {})) => Observed(Cur) = Observed(InlinedRun)

\* A finished read that went through at least one redirect of a valid chain.
C1_Redirected ==
    /\ Ended
    /\ ValidChain(f.fs, Main, {})
    /\ Len(f.handles) > 1

\* C2: when the read pass has ended, normally or by an error, every file
\* handle opened during the pass is closed.
C2_AllHandlesClosed ==
    Ended => \A h \in 1..Len(f.handles) : f.handles[h].closed

\* A pass that ended by an error raised while a parent was suspended.
C2_EndedInChild == pc = "raised" /\ f.backburner # <<>>

\* Some Gauge tag among the tags returned has no EndGauge after it.
UnclosedGauge(tags) ==
    \E i \in 1..Len(tags) :
        /\ cleantag(tags[i]) = "Gauge"
        /\ \A j \in (i + 1)..Len(tags) : cleantag(tags[j]) # "EndGauge"

\* The last table decoded found fewer lines than its row count.
TableCutShort ==
    /\ hist.frame # <<>>
    /\ hist.frame[1].pos < hist.frame[1].hdr_pos + hist.frame[1].nv

\* C5: a read pass whose input ran out inside a gauge block that :EndGauge
\* has not closed, or inside a table whose rows are not complete, does not
\* return normally (it ends with an UnexpectedEndOfInput error).  A pass
\* that returned has read its input to the end.
C5_UnexpectedEndOfInput ==
    pc = "done" => ~UnclosedGauge(f.tags) /\ ~TableCutShort

\* A pass that returned normally although a Gauge block was never closed.
C5_ReturnedUnclosed == pc = "done" /\ UnclosedGauge(f.tags)

\* The file whose directive nexttag was following when the pass ended, and
\* the path that directive names.
IssuingFile == f.handles[f.fileobject].name
OffendingPath == f.fs[IssuingFile][f.handles[f.fileobject].pos].tok[2]

\* C7: the error raised for a redirect directive whose target does not exist
\* names the offending path and the file that issued the directive.
C7_MissingTargetNamed ==
    (pc = "raised" /\ exc[1] = "RuntimeError")
        => /\ \E a \in 2..Len(exc) : exc[a] = OffendingPath
           /\ \E b \in 2..Len(exc) : exc[b] = IssuingFile

\* A pass ended by the error for a missing redirect target.
C7_MissingTarget == pc = "raised" /\ exc[1] = "RuntimeError"

\* The calls of read_metgauge for name, in order; those that stored a record.
BlocksOf(name) == {b \in 1..Len(hist.blocks) : hist.blocks[b].name = name}
StoredBlocksOf(name) == {b \in BlocksOf(name) : hist.blocks[b].commit # <<>>}
SetMax(S) == CHOOSE x \in S : \A y \in S : y <= x
GaugeNames == {hist.blocks[b].name : b \in 1..Len(hist.blocks)}
StoredNames == {n \in GaugeNames : StoredBlocksOf(n) # {}}

\* The type a data tag gives the record it commits.
TypeOf(tag) == IF cleantag(tag) = "MultiData" THEN "MultiData" ELSE tag.tok[2]

\* C8 as stated: after read, the mapping has one entry per gauge name, and
\* the entry of a name is the record of the last Gauge block with that name.
C8_LastBlockWins ==
    pc = "done" =>
        /\ ~HasDuplicates(rvt.metgauges.keys)
        /\ Range(rvt.metgauges.keys) = GaugeNames
        /\ \A n \in GaugeNames :
              rvt.metgauges.val[n] = hist.blocks[SetMax(BlocksOf(n))].obj

\* C8, amended: after read, the mapping has one entry per gauge name that has
\* a block with a MultiData or Data tag, and the entry of a name is the
\* record of the last such block of that name, with the type of the last
\* data tag of that block.
C8_LastCommittedBlockWins ==
    pc = "done" =>
        /\ ~HasDuplicates(rvt.metgauges.keys)
        /\ Range(rvt.metgauges.keys) = StoredNames
        /\ \A n \in StoredNames :
              /\ rvt.metgauges.val[n] = hist.blocks[SetMax(StoredBlocksOf(n))].obj
              /\ heap[rvt.metgauges.val[n]].val["Type"]
                    = TypeOf(hist.blocks[SetMax(StoredBlocksOf(n))].commit[1])

\* A read that met two blocks of one name, both with a data tag.
C8_Overwritten ==
    /\ pc = "done"
    /\ \E n \in StoredNames : Cardinality(StoredBlocksOf(n)) > 1

\* The lines of the file that the last call of read_obsgauge was made on.
ObsFile == f.fs[f.handles[hist.obs[1].fileobject].name]
ObsTag == ObsFile[hist.obs[1].pos]
ObsRow(i) == ObsFile[hist.obs[1].pos + 1 + i]
ObsEntry == rvt.obsgauges.val[hist.obs[1].id]

\* C9: a call of read_obsgauge that returned has consumed the date-step line
\* and then exactly count lines of the same handle; the record is stored
\* under the integer id of the tag, in place of any earlier one; its table
\* has the count rows, one column; for type HYDROGRAPH that column is QObs.
C9_ObservationStored ==
    hist.obs # <<>> =>
        /\ hist.obs[1].after_fileobject = hist.obs[1].fileobject
        /\ hist.obs[1].after_backburner = hist.obs[1].backburner
        /\ hist.obs[1].after_pos = hist.obs[1].pos + 1 + hist.obs[1].nvalues
        /\ hist.obs[1].id = int(ObsTag.tok[3])
        /\ ~HasDuplicates(rvt.obsgauges.keys)
        /\ dict_has(rvt.obsgauges, hist.obs[1].id)
        /\ ObsEntry.val["Type"] = ObsTag.tok[2]
        /\ Len(ObsEntry.val["Data"].rows) = hist.obs[1].nvalues
        /\ \A i \in 1..hist.obs[1].nvalues :
              ObsEntry.val["Data"].rows[i] = ObsRow(i).tok
        /\ Len(ObsEntry.val["Data"].columns) = 1
        /\ ObsTag.tok[2] = "HYDROGRAPH" => ObsEntry.val["Data"].columns = <<"QObs">>

\* An observation block has been stored by a pass that followed a redirect.
C9_StoredAfterRedirect == hist.obs # <<>> /\ Len(f.handles) > 1

(***************************************************************************)
(* Properties of the accessors.                                            *)
(***************************************************************************)
\* C6: imet(i) and iobs(i) with i at or past the number of gauges end with
\* an IndexError and return no table.
C6_IndexOutOfRange ==
    (hist.call # <<>> /\ hist.call[1].i >= hist.call[1].count)
        => (hist.call[1].exc # NoExc /\ hist.call[1].exc[1] = "IndexError"
            /\ hist.call[1].ret = None)

\* An accessor was called with i equal to the number of gauges, gauges present.
C6_AtCount ==
    /\ hist.call # <<>>
    /\ hist.call[1].count > 0
    /\ hist.call[1].i = hist.call[1].count

(***************************************************************************)
(* Properties of read_RavenFrame.                                          *)
(***************************************************************************)
\* The file the last table was decoded from, its lines after the header,
\* and the delimiter detected on the first of them.
FrameFile == f.fs[f.handles[hist.frame[1].hdr_fileobject].name]
FrameLine(i) == FrameFile[hist.frame[1].hdr_pos + i]
FrameComma == FrameLine(1).comma

\* C3: when read_RavenFrame has returned, the active handle and the stack
\* are those the reader had right after the header, and the position is
\* rowCount lines past the position it had there.
C3_PositionAfterFrame ==
    hist.frame # <<>> =>
        /\ hist.frame[1].fileobject = hist.frame[1].hdr_fileobject
        /\ hist.frame[1].backburner = hist.frame[1].hdr_backburner
        /\ hist.frame[1].pos = hist.frame[1].hdr_pos + hist.frame[1].nv

\* A table of two rows or more was decoded after a header.
C3_Decoded ==
    /\ hist.frame # <<>>
    /\ hist.frame[1].header
    /\ hist.frame[1].nv >= 2

\* C4: a table decoded with a header has exactly rowCount rows, they are the
\* rowCount lines that follow the header, and the position afterwards is one
\* line past the last of them.
C4_RowsAreTheLines ==
    (hist.frame # <<>> /\ hist.frame[1].header) =>
        /\ Len(hist.frame[1].df.rows) = hist.frame[1].nv
        /\ hist.frame[1].pos = hist.frame[1].hdr_pos + hist.frame[1].nv
        /\ \A i \in 1..hist.frame[1].nv :
              /\ hist.frame[1].hdr_pos + i <= Len(FrameFile)
              /\ hist.frame[1].df.rows[i]
                    = Cells(Fields(FrameLine(i), FrameComma),
                            Len(hist.frame[1].df.rows[i]), na_values_default)

\* A table decoded after a header, its row count measured, a blank line in it.
C4_MeasuredOverBlank ==
    /\ hist.frame # <<>>
    /\ hist.frame[1].header
    /\ hist.call # <<>> /\ ~hist.call[1].hinted
    /\ \E i \in 1..hist.frame[1].nv : FrameLine(i).tok = <<>>

\* The last call was read_RavenFrame with a date-step descriptor, and returned.
DatedCall ==
    /\ hist.frame # <<>>
    /\ hist.call # <<>>
    /\ hist.call[1].op = "read_RavenFrame"
    /\ hist.call[1].time_tuple # None
DateStart == hist.call[1].time_tuple[1]
DateStep == hist.call[1].time_tuple[2]
DateCount == IF hist.call[1].hinted THEN hist.call[1].nvalues[1] ELSE hist.frame[1].nv
DateIndex == hist.frame[1].df.index

\* C11: the table read_RavenFrame returns for a date-step descriptor (start,
\* step, count) has an index of exactly count entries, entry k being
\* start + k * step, strictly increasing when step > 0.
C11_DateIndex ==
    DatedCall =>
        /\ hist.frame[1].df.indexed
        /\ Len(DateIndex) = DateCount
        /\ \A k \in 0..(DateCount - 1) : DateIndex[k + 1] = DateStart + k * DateStep
        /\ DateStep > 0 =>
              \A k \in 1..(DateCount - 1) : DateIndex[k] < DateIndex[k + 1]

\* A table of two dated rows or more, the step positive, was returned.
C11_TwoDates ==
    /\ DatedCall
    /\ DateStep > 0
    /\ DateCount >= 2
    /\ Len(hist.frame[1].df.rows) = DateCount

\* The two states as the tags tell them: inside a gauge block from a Gauge
\* tag met at top level to the next EndGauge or the end of input.
RECURSIVE ModeAfter(_)
ModeAfter(seen) ==
    IF seen = <<>> THEN "top"
    ELSE IF ~Truthy(Last(seen)) THEN "top"
    ELSE IF ModeAfter(Front(seen)) = "top"
         THEN (IF cleantag(Last(seen)) = "Gauge" THEN "gauge" ELSE "top")
         ELSE (IF cleantag(Last(seen)) = "EndGauge" THEN "top" ELSE "gauge")
\* The state in which the line about to be tested was met.
Mode == ModeAfter(Front(hist.seen))
InLoop == pc \in {"rvt_read", "metgauge"} /\ Truthy(loc.line)
GaugeTags == {"Latitude", "Longitude", "Elevation", "MultiData", "Data"}
MappingsKept == rvt' = rvt /\ heap' = heap

\* C15: the loop that tests a tag is the top-level one outside a gauge block
\* and the one of read_metgauge inside; Latitude, Longitude, Elevation,
\* MultiData and Data change something only inside a block; EndGauge leads
\* back to the top-level loop; every other tag inside a block, and every tag
\* but Gauge and ObservationData at top level, leaves the met-gauge and the
\* observation-gauge mapping and their records as they are.
C15_TwoStateMachine ==
    [][InLoop =>
          /\ pc = "metgauge" <=> Mode = "gauge"
          /\ (Mode = "top" /\ cleantag(loc.line) \notin {"Gauge", "ObservationData"}) =>
                 MappingsKept /\ pc' \in {"rvt_read", "raised"}
          /\ (Mode = "gauge" /\ cleantag(loc.line) = "EndGauge") =>
                 MappingsKept /\ pc' \in {"rvt_read", "raised"}
          /\ (Mode = "gauge" /\ cleantag(loc.line) \notin GaugeTags \cup {"EndGauge"}) =>
                 MappingsKept /\ pc' \in {"metgauge", "raised"}
          /\ (Mode = "gauge" /\ pc' # "raised"
                 /\ cleantag(loc.line) \in {"Latitude", "Longitude", "Elevation"}) =>
                 dict_has(heap'[loc.gauge_dict], cleantag(loc.line))
          /\ (Mode = "gauge" /\ pc' # "raised"
                 /\ cleantag(loc.line) \in {"MultiData", "Data"}) =>
                 /\ dict_has(rvt'.metgauges, loc.name)
                 /\ dict_has(heap'[loc.gauge_dict], "Data")]_vars

\* A tag of a gauge block was met at top level, and a tag that is none of a
\* gauge block was met inside one that had stored its record.
C15_BothSkipped ==
    /\ \E i \in 1..Len(hist.seen) :
           /\ Truthy(hist.seen[i])
           /\ cleantag(hist.seen[i]) \in GaugeTags
           /\ ModeAfter(SubSeq(hist.seen, 1, i - 1)) = "top"
    /\ \E i \in 1..Len(hist.seen) :
           /\ Truthy(hist.seen[i])
           /\ cleantag(hist.seen[i]) \notin GaugeTags \cup {"EndGauge"}
           /\ ModeAfter(SubSeq(hist.seen, 1, i - 1)) = "gauge"
    /\ dict_len(rvt.metgauges) > 0
    /\ pc = "done"

\* C18: a read pass suspends fewer handles than there are files, and does
\* not end for want of file descriptors: it is bounded by its input, also
\* when a directive leads back to a file that is being read.
C18_BoundedPass ==
    /\ Len(f.backburner) < Cardinality(DOMAIN f.fs)
    /\ (pc = "raised" /\ exc # NoExc) => exc[1] # "OSError"

\* The pass over a file that redirects to itself was ended by the limit on
\* open files, every handle it had opened suspended.
C18_SelfRedirect ==
    /\ DOMAIN f.fs = {Main}
    /\ pc = "raised"
    /\ exc # NoExc
    /\ exc[1] = "OSError"
    /\ Len(f.backburner) = MaxOpen

\* Where in hist.seen the gauge block being read began, and whether all its
\* tags so far, the one about to be tested included, are other than MultiData
\* and Data.
BlockBegin ==
    SetMax({i \in 1..Len(hist.seen) :
               /\ Truthy(hist.seen[i])
               /\ cleantag(hist.seen[i]) = "Gauge"
               /\ ModeAfter(SubSeq(hist.seen, 1, i - 1)) = "top"})
NoDataTagYet ==
    \A i \in (BlockBegin + 1)..Len(hist.seen) :
        ~Truthy(hist.seen[i]) \/ cleantag(hist.seen[i]) \notin {"MultiData", "Data"}
OtherRecordsKept ==
    \A o \in 1..Len(heap) : o # loc.gauge_dict => heap'[o] = heap[o]

\* C19: as long as a gauge block has had no MultiData and no Data tag, up to
\* its EndGauge or the end of input, the met-gauge mapping does not refer to
\* its record, and no step of it changes the mapping or the record an earlier
\* block stored.
C19_DataLessBlock ==
    [][(pc = "metgauge" /\ NoDataTagYet) =>
          /\ \A n \in Range(rvt.metgauges.keys) : rvt.metgauges.val[n] # loc.gauge_dict
          /\ rvt' = rvt
          /\ OtherRecordsKept]_vars

\* After a block that stored a record, a block of the same name with a
\* Latitude and no data tag has been read to its end.
C19_SecondBlockDataLess ==
    /\ pc = "done"
    /\ \E b1, b2 \in 1..Len(hist.blocks) :
          /\ b1 < b2
          /\ hist.blocks[b1].name = hist.blocks[b2].name
          /\ hist.blocks[b1].commit # <<>>
          /\ hist.blocks[b2].commit = <<>>
          /\ dict_has(heap[hist.blocks[b2].obj], "Latitude")
          /\ rvt.metgauges.val[hist.blocks[b1].name] = hist.blocks[b1].obj

\* The places in hist.seen of the tags for field k that the b-th gauge block
\* has had.
IsBlockBegin(i) ==
    /\ Truthy(hist.seen[i])
    /\ cleantag(hist.seen[i]) = "Gauge"
    /\ ModeAfter(SubSeq(hist.seen, 1, i - 1)) = "top"
BlockAt(i) == Cardinality({j \in 1..i : IsBlockBegin(j)})
FieldTagsOf(b, k) ==
    {i \in 1..Len(hist.seen) :
        /\ Truthy(hist.seen[i])
        /\ cleantag(hist.seen[i]) = k
        /\ ModeAfter(SubSeq(hist.seen, 1, i - 1)) = "gauge"
        /\ BlockAt(i) = b}
FieldNames == {"Latitude", "Longitude", "Elevation"}

\* C20: after read, the record the mapping holds for a name has, for each of
\* Latitude, Longitude and Elevation that the block which stored it gives, the
\* last value the block gives, be the tag before or after the data tag.
C20_FieldsOfTheBlock ==
    pc = "done" =>
        \A n \in StoredNames : \A k \in FieldNames :
            FieldTagsOf(SetMax(StoredBlocksOf(n)), k) # {} =>
                /\ dict_has(heap[rvt.metgauges.val[n]], k)
                /\ heap[rvt.metgauges.val[n]].val[k]
                      = float(hist.seen[SetMax(FieldTagsOf(SetMax(StoredBlocksOf(n)), k))].tok[2])

\* A block gave a Latitude, stored its record, and gave another Latitude.
C20_FieldAfterData ==
    /\ pc = "done"
    /\ \E n \in StoredNames :
          /\ Cardinality(FieldTagsOf(SetMax(StoredBlocksOf(n)), "Latitude")) = 2
          /\ heap[rvt.metgauges.val[n]].val["Latitude"] = float("-75.0")

(***************************************************************************)
(* Properties of the scanning methods.                                     *)
(***************************************************************************)
\* The tags of a document, in order: its lines that start with ':' and are
\* no redirect directive.
IsPlainTag(line) == startswith_colon(line) /\ ~startswith_redirect(line)
TagsOf(doc) == SelectSeq(doc, IsPlainTag)
AllTags == TagsOf(Inline(f.fs, Main, 2))
IsPrefix(s, t) == Len(s) <= Len(t) /\ s = SubSeq(t, 1, Len(s))

\* Every handle, active or suspended, has been read to its end.
AllExhausted ==
    \A h \in {f.fileobject} \cup Range(f.backburner) :
        f.handles[h].pos >= Len(f.fs[f.handles[h].name])

\* The last call was nexttag, and it returned False.
ReturnedFalse ==
    hist.call # <<>> /\ hist.call[1].op = "nexttag" /\ hist.call[1].ret = False

\* C12: the tags nexttag has returned so far are, in reading order, the
\* first tags of the files with every redirect followed; none of them is a
\* redirect directive; when nexttag returns False every tag has been
\* returned and the active handle and all suspended handles are exhausted.
C12_TagsInOrder ==
    /\ \A i \in 1..Len(f.tags) : IsPlainTag(f.tags[i])
    /\ IsPrefix(f.tags, AllTags)
    /\ ReturnedFalse => (f.tags = AllTags /\ AllExhausted)

\* nexttag returned False after tags of the parent, of the target and of the
\* target's target, and a tag of the parent that follows the directive.
C12_BackToParent ==
    /\ ReturnedFalse
    /\ Len(f.handles) = 3
    /\ Len(f.tags) >= 3
    /\ Last(f.tags) = Txt(<<":Parameters", "P", "T">>)

\* The last call was eof_check; Before is the reader it was called on.
EofChecked == hist.call # <<>> /\ hist.call[1].op = "eof_check"
Before == hist.call[1].before
Positions(r) == [h \in 1..Len(r.handles) |-> r.handles[h].pos]
\* The line a handle read last.
LineBefore(r, h) == r.fs[r.handles[h].name][r.handles[h].pos]

\* C13: eof_check moves the position of no handle.  With content left in the
\* active handle it returns false and keeps the active handle and the stack;
\* with the active handle exhausted and a non-empty stack it pops the top
\* handle only, makes it the active one, just behind the directive at which
\* it was suspended, and returns false; it returns true exactly when the
\* active handle is exhausted and the stack is empty.
C13_EofCheck ==
    EofChecked =>
        /\ Positions(f) = Positions(Before)
        /\ ~AtEOF(Before) =>
               /\ hist.call[1].ret = FALSE
               /\ f.fileobject = Before.fileobject
               /\ f.backburner = Before.backburner
        /\ (AtEOF(Before) /\ Before.backburner # <<>>) =>
               /\ hist.call[1].ret = FALSE
               /\ f.fileobject = Last(Before.backburner)
               /\ f.backburner = Front(Before.backburner)
               /\ tell(f) >= 1
               /\ startswith_redirect(LineBefore(f, f.fileobject))
        /\ hist.call[1].ret = TRUE <=> (AtEOF(Before) /\ Before.backburner = <<>>)

\* eof_check popped a handle that has lines left, from a stack of two.
C13_Popped ==
    /\ EofChecked
    /\ AtEOF(Before)
    /\ Len(Before.backburner) = 2
    /\ f.fileobject = Last(Before.backburner)
    /\ ~AtEOF(f)

\* The last call was get_datadist.
Measured == hist.call # <<>> /\ hist.call[1].op = "get_datadist"

\* The number of lines of data from position p up to the first line that
\* starts with ':' or is empty, or up to the end.
RECURSIVE LinesToTagOrBlank(_, _)
LinesToTagOrBlank(data, p) ==
    IF p >= Len(data) THEN 0
    ELSE IF startswith_colon(data[p + 1]) \/ data[p + 1] = EmptyStr THEN 0
    ELSE 1 + LinesToTagOrBlank(data, p + 1)

\* C14: get_datadist returns the number of lines from the current position
\* up to the first line that starts with ':' or is blank, or up to the end
\* of the active handle, and leaves position, active handle and stack as
\* they were.
C14_DistanceToTagOrBlank ==
    Measured =>
        /\ hist.call[1].ret = LinesToTagOrBlank(Data(Before), tell(Before))
        /\ Positions(f) = Positions(Before)
        /\ f.fileobject = Before.fileobject
        /\ f.backburner = Before.backburner

\* get_datadist measured from a data line that a blank line follows.
C14_BlankAhead ==
    /\ Measured
    /\ tell(f) + 2 <= Len(Data(f))
    /\ Data(f)[tell(f) + 1] = Txt(<<"1", "10">>)
    /\ Data(f)[tell(f) + 2] = EmptyStr

\* The last call of read_RavenFrame had id_col true, and returned.
IdCall == hist.frame # <<>> /\ hist.frame[1].id_col
\* The lines the rows of the last table were decoded from.
FrameRowLine(i) == FrameFile[NonBlankFrom(FrameFile, hist.frame[1].hdr_pos)[i]]
\* The first column of the last table is "ID", its cells the first tokens of
\* the rows.
FirstColumnIsId ==
    /\ hist.frame[1].df.columns # <<>>
    /\ hist.frame[1].df.columns[1] = "ID"
    /\ \A i \in 1..Min(Len(hist.frame[1].df.rows),
                         Len(NonBlankFrom(FrameFile, hist.frame[1].hdr_pos))) :
          hist.frame[1].df.rows[i][hist.frame[1].df.nidx + 1]
              = Cells(Fields(FrameRowLine(i), FrameComma), 1, na_values_default)[1]

\* C16: the table read_RavenFrame returns when id_col is true has "ID" as its
\* first column, holding the first token of each data row, whatever the other
\* options are.
C16_IdColumn == IdCall => FirstColumnIsId

\* read_RavenFrame returned a table of two rows, id_col true and header false.
C16_NoHeader ==
    /\ IdCall
    /\ ~hist.frame[1].header
    /\ Len(hist.frame[1].df.rows) = 2

\* The last call was read_dateline, with a line left in the active handle.
DateRead == hist.call # <<>> /\ hist.call[1].op = "read_dateline" /\ ~AtEOF(Before)
\* The fields of the line it was called on.
DateLineRead == Data(Before)[tell(Before) + 1].tok
FourWellFormed(tok) ==
    /\ Len(tok) = 4
    /\ tok[1] \in DateToks
    /\ tok[2] \in TimeToks
    /\ tok[3] \in FloatToks
    /\ tok[4] \in IntToks

\* C17: read_dateline consumes exactly one line of the active handle; it
\* returns when that line is four well-formed fields (date, time, step in
\* days, integer count), and raises an error on every other line.
C17_FourFields ==
    DateRead =>
        /\ f.fileobject = Before.fileobject
        /\ tell(f) = tell(Before) + 1
        /\ exc = NoExc <=> FourWellFormed(DateLineRead)

\* read_dateline was called on a line of five fields.
C17_FiveFields == DateRead /\ Len(DateLineRead) = 5

(***************************************************************************)
(* Properties of a read pass of RavenRVH.                                  *)
(***************************************************************************)
\* The line (1-based) of the last tag of the document with the keyword given,
\* 0 when there is none.
LastTagLine(data, keyword) ==
    SetMax({0} \cup {p \in 1..Len(data) : cleantag(data[p]) = keyword})

\* The data rows of the table whose tag is line p of the document: the lines
\* after the two header rows, up to the first line that is blank or a tag.
RECURSIVE RowsFrom(_, _)
RowsFrom(data, p) ==
    IF p >= Len(data) THEN <<>>
    ELSE IF data[p + 1].tok = <<>> \/ startswith_colon(data[p + 1]) THEN <<>>
    ELSE <<data[p + 1]>> \o RowsFrom(data, p + 1)
TableRowsOf(keyword) == RowsFrom(f.fs[Main], LastTagLine(f.fs[Main], keyword) + 2)

\* The sum of the AREA cells (the second token of a row), a missing value
\* counting as nothing; in tenths.
AreaSum(rows) ==
    SumSeq([i \in 1..Len(rows) |->
              IF rows[i].tok[2] = na_values_default THEN 0 ELSE float(rows[i].tok[2])])

\* C10: after read of a file with an HRUs table, nhrus is the number of data
\* rows of that table and total_area the sum of its AREA column, a missing
\* value counting as 0; nsubbasins is the number of rows of the SubBasins
\* table.
C10_Totals ==
    pc = "done" =>
        /\ LastTagLine(f.fs[Main], "HRUs") > 0 =>
              /\ rvh.nhrus = Len(TableRowsOf("HRUs"))
              /\ rvh.total_area = <<"float", AreaSum(TableRowsOf("HRUs"))>>
        /\ LastTagLine(f.fs[Main], "SubBasins") > 0 =>
              rvh.nsubbasins = Len(TableRowsOf("SubBasins"))

\* A read that returned after an HRUs table with a missing AREA value, and a
\* SubBasins table.
C10_BothTables ==
    /\ pc = "done"
    /\ rvh.subbasins # None
    /\ rvh.hrus # None
    /\ \E i \in 1..Len(TableRowsOf("HRUs")) :
          TableRowsOf("HRUs")[i].tok[2] = na_values_default

====
